---- MODULE Spec2Model ----
(***************************************************************************)
(* AmortizedList (src/amortized.go): a circular doubly linked list with a  *)
(* sentinel element whose removed elements are kept in a plain List (the   *)
(* field `memory`) and handed out again by later insertions.               *)
(*                                                                         *)
(* The heap is modelled by the fields of every Element (next, prev, list,  *)
(* alist, Value), of every AmortizedList (root, len, memory) and of every  *)
(* plain List used as a pool (root, len).  Pointers are integers: 0 is     *)
(* nil, 1..MaxNodes are the elements allocated by insertValue, negative    *)
(* numbers are the sentinels and one element built by the caller.          *)
(*                                                                         *)
(* A nil dereference is a run-time panic in Go: the operation stops at the *)
(* statement that dereferences nil, keeping the writes made before it.     *)
(***************************************************************************)
EXTENDS Integers, FiniteSets, Sequences, TLC

\* Bounds of the model: the elements the heap can hold, and the elements
\* two lists may allocate between them when both are in use.
MaxNodes == 3
MaxShared == 2

NIL == 0
Lists == {1, 2}
OneList == {1}
Nodes == 1..MaxNodes
\* Payloads.  No statement of the package reads a payload, so two distinct
\* values show every copy, overwrite and reordering of payloads.
Values == {1, 2}
\* The plain Lists that New can allocate: every Init takes a new one.  The
\* calls of a behaviour allocate those of Inits, which leaves one for a
\* call examined in its last states.
Pools == {1, 2, 3}
Inits == {0, 1, 2}

\* &l.root of AmortizedList l, &p.root of pool List p, and a zero Element
\* built by the caller (new(Element[T])), never inserted anywhere.
Root(l) == -l
PoolRoot(p) == -(2 + p)
Ext == -6
ListRoots == {Root(l) : l \in Lists}
PoolRoots == {PoolRoot(p) : p \in Pools}
Ids == Nodes \cup ListRoots \cup PoolRoots \cup {Ext}

VARIABLES
  next,     \* Element.next
  prev,     \* Element.prev
  list,     \* Element.list: the plain List (pool) holding the element, or nil
  alist,    \* Element.alist: the AmortizedList holding the element, or nil
  Value,    \* Element.Value (0 is the zero value)
  len,      \* AmortizedList.len
  memory,   \* AmortizedList.memory: a pool, or nil
  plen,     \* List.len of every pool
  created,  \* number of elements allocated so far by insertValue
  npools,   \* number of pools allocated so far by New
  panicked, \* the last call ended in a run-time panic
  ret,      \* what the last call returned
  called,   \* the last exported method called, and whether it left the heap as it was
  removed   \* the elements Remove took out of their list and no insertion has handed out since

vars == <<next, prev, list, alist, Value, len, memory, plen, created, npools,
          panicked, ret, called, removed>>

NoRet == [kind |-> "none", x |-> NIL]

\* The heap as one value, threaded through the statements of a method.
\* `over` is set when a method would allocate past the bounds of the model.
St ==
  [next |-> next, prev |-> prev, list |-> list, alist |-> alist,
   Value |-> Value, len |-> len, memory |-> memory, plen |-> plen,
   created |-> created, npools |-> npools, panicked |-> FALSE,
   ret |-> NoRet, over |-> FALSE]

Panic(s) == [s EXCEPT !.panicked = TRUE, !.ret = NoRet]

Halted(s) == s.panicked \/ s.over

----
\* The plain List used as the pool, and Element.Next/Prev.

ListNew(s) ==
  IF s.npools + 1 \notin Pools THEN [s EXCEPT !.over = TRUE]
  ELSE LET p == s.npools + 1 IN
       [s EXCEPT !.npools = p, !.plen[p] = 0,
                 !.next[PoolRoot(p)] = PoolRoot(p),
                 !.prev[PoolRoot(p)] = PoolRoot(p)]

ListBack(s, p) == IF s.plen[p] = 0 THEN NIL ELSE s.prev[PoolRoot(p)]

ListInsert(s, p, e, at) ==
  LET s1 == [s EXCEPT !.prev[e] = at] IN
  IF at = NIL THEN Panic(s1) ELSE
  LET s2 == [s1 EXCEPT !.next[e] = s1.next[at]] IN
  LET s3 == [s2 EXCEPT !.next[s2.prev[e]] = e] IN
  IF s3.next[e] = NIL THEN Panic(s3) ELSE
  LET s4 == [s3 EXCEPT !.prev[s3.next[e]] = e] IN
  [s4 EXCEPT !.list[e] = p, !.plen[p] = @ + 1]

ListRemove(s, p, e) ==
  IF s.list[e] # p THEN s ELSE
  IF s.prev[e] = NIL THEN Panic(s) ELSE
  LET s1 == [s EXCEPT !.next[s.prev[e]] = s.next[e]] IN
  IF s1.next[e] = NIL THEN Panic(s1) ELSE
  LET s2 == [s1 EXCEPT !.prev[s1.next[e]] = s1.prev[e]] IN
  [s2 EXCEPT !.next[e] = NIL, !.prev[e] = NIL, !.list[e] = NIL,
             !.plen[p] = @ - 1]

ElemNext(s, e) ==
  IF s.next[e] \in ListRoots \cup PoolRoots THEN NIL ELSE s.next[e]

ElemPrev(s, e) ==
  IF s.prev[e] \in ListRoots \cup PoolRoots THEN NIL ELSE s.prev[e]

----
\* AmortizedList: the unexported methods.

\* Init as it would be if it kept the length.
InitKeepsLen(s, l) ==
  LET s1 == [s EXCEPT !.next[Root(l)] = Root(l), !.prev[Root(l)] = Root(l)]
      s2 == ListNew(s1) IN
  IF s2.over THEN s2 ELSE [s2 EXCEPT !.memory[l] = s2.npools]

DoInit(s, l) ==
  LET s1 == [s EXCEPT !.next[Root(l)] = Root(l), !.prev[Root(l)] = Root(l),
                      !.len[l] = 0]
      s2 == ListNew(s1) IN
  IF s2.over THEN s2 ELSE [s2 EXCEPT !.memory[l] = s2.npools]

Front(s, l) == IF s.len[l] = 0 THEN NIL ELSE s.next[Root(l)]

Back(s, l) == IF s.len[l] = 0 THEN NIL ELSE s.prev[Root(l)]

\* lazyInit as it would be if it never initialized.
lazyInitNever(s, l) == s

lazyInit(s, l) == IF s.next[Root(l)] = NIL THEN DoInit(s, l) ELSE s

insert(s, l, e, at) ==
  LET s1 == [s EXCEPT !.prev[e] = at] IN
  IF at = NIL THEN Panic(s1) ELSE
  LET s2 == [s1 EXCEPT !.next[e] = s1.next[at]] IN
  LET s3 == [s2 EXCEPT !.next[s2.prev[e]] = e] IN
  IF s3.next[e] = NIL THEN Panic(s3) ELSE
  LET s4 == [s3 EXCEPT !.prev[s3.next[e]] = e] IN
  [s4 EXCEPT !.alist[e] = l, !.len[l] = @ + 1,
             !.ret = [kind |-> "elem", x |-> e]]

insertValue(s, l, v, at) ==
  IF Halted(s) THEN s ELSE
  IF s.memory[l] = NIL THEN Panic(s) ELSE
  LET lastSlot == ListBack(s, s.memory[l]) IN
  IF lastSlot = NIL
  THEN IF s.created >= MaxNodes THEN [s EXCEPT !.over = TRUE]
       ELSE LET e == s.created + 1 IN
            insert([s EXCEPT !.created = e, !.Value[e] = v], l, e, at)
  ELSE LET s1 == ListRemove(s, s.memory[l], lastSlot) IN
       IF s1.panicked THEN s1
       ELSE insert([s1 EXCEPT !.Value[lastSlot] = v], l, lastSlot, at)

remove(s, l, e) ==
  IF s.prev[e] = NIL THEN Panic(s) ELSE
  LET s1 == [s EXCEPT !.next[s.prev[e]] = s.next[e]] IN
  IF s1.next[e] = NIL THEN Panic(s1) ELSE
  LET s2 == [s1 EXCEPT !.prev[s1.next[e]] = s1.prev[e]] IN
  LET s3 == [s2 EXCEPT !.next[e] = NIL, !.prev[e] = NIL, !.list[e] = NIL,
                       !.len[l] = @ - 1] IN
  IF s3.memory[l] = NIL THEN Panic(s3) ELSE
  ListInsert(s3, s3.memory[l], e, ListBack(s3, s3.memory[l]))

move(s, e, at) ==
  IF e = at THEN s ELSE
  IF s.prev[e] = NIL THEN Panic(s) ELSE
  LET s1 == [s EXCEPT !.next[s.prev[e]] = s.next[e]] IN
  IF s1.next[e] = NIL THEN Panic(s1) ELSE
  LET s2 == [s1 EXCEPT !.prev[s1.next[e]] = s1.prev[e]] IN
  LET s3 == [s2 EXCEPT !.prev[e] = at] IN
  IF at = NIL THEN Panic(s3) ELSE
  LET s4 == [s3 EXCEPT !.next[e] = s3.next[at]] IN
  LET s5 == [s4 EXCEPT !.next[s4.prev[e]] = e] IN
  IF s5.next[e] = NIL THEN Panic(s5) ELSE
  [s5 EXCEPT !.prev[s5.next[e]] = e]

----
\* AmortizedList: the exported methods, as functions of the heap.

\* Remove as it would be without the test of the owner.
RemoveAnyOwner(s, l, e) ==
  LET s1 == remove(s, l, e) IN
  IF s1.panicked THEN s1 ELSE [s1 EXCEPT !.ret = [kind |-> "val", x |-> s1.Value[e]]]

DoRemove(s, l, e) ==
  LET s1 == IF s.alist[e] = l THEN remove(s, l, e) ELSE s IN
  IF s1.panicked THEN s1 ELSE [s1 EXCEPT !.ret = [kind |-> "val", x |-> s1.Value[e]]]

DoPushFront(s, l, v) == insertValue(lazyInit(s, l), l, v, Root(l))

\* PushBack as it would be if it inserted after the sentinel.
PushBackAtRoot(s, l, v) ==
  LET s1 == lazyInit(s, l) IN
  IF Halted(s1) THEN s1 ELSE insertValue(s1, l, v, Root(l))

DoPushBack(s, l, v) ==
  LET s1 == lazyInit(s, l) IN
  IF Halted(s1) THEN s1 ELSE insertValue(s1, l, v, s1.prev[Root(l)])

NilElem == [kind |-> "elem", x |-> NIL]

\* InsertBefore as it would be if it inserted after the mark.
InsertBeforeAtMark(s, l, v, mark) ==
  IF s.alist[mark] # l THEN [s EXCEPT !.ret = NilElem] ELSE insertValue(s, l, v, mark)

DoInsertBefore(s, l, v, mark) ==
  IF s.alist[mark] # l THEN [s EXCEPT !.ret = NilElem] ELSE insertValue(s, l, v, s.prev[mark])

\* InsertAfter as it would be without the test of the mark's owner.
InsertAfterAnyMark(s, l, v, mark) == insertValue(s, l, v, mark)

DoInsertAfter(s, l, v, mark) ==
  IF s.alist[mark] # l THEN [s EXCEPT !.ret = NilElem] ELSE insertValue(s, l, v, mark)

\* MoveToFront as it would be without the test of the owner.
MoveToFrontAnyOwner(s, l, e) ==
  IF s.next[Root(l)] = e THEN s ELSE move(s, e, Root(l))

DoMoveToFront(s, l, e) ==
  IF s.alist[e] # l \/ s.next[Root(l)] = e THEN s ELSE move(s, e, Root(l))

DoMoveToBack(s, l, e) ==
  IF s.alist[e] # l \/ s.prev[Root(l)] = e THEN s
  ELSE move(s, e, s.prev[Root(l)])

\* MoveBefore without the owner test on mark.
MoveBeforeAnyMark(s, l, e, mark) ==
  IF s.alist[e] # l \/ e = mark THEN s
  ELSE move(s, e, s.prev[mark])

DoMoveBefore(s, l, e, mark) ==
  IF s.alist[e] # l \/ e = mark \/ s.alist[mark] # l THEN s
  ELSE move(s, e, s.prev[mark])

DoMoveAfter(s, l, e, mark) ==
  IF s.alist[e] # l \/ e = mark \/ s.alist[mark] # l THEN s
  ELSE move(s, e, mark)

RECURSIVE PushBackLoop(_, _, _, _)
PushBackLoop(s, l, i, e) ==
  IF Halted(s) \/ i <= 0 THEN s ELSE
  IF e = NIL THEN Panic(s) ELSE
  LET s1 == insertValue(s, l, s.Value[e], s.prev[Root(l)]) IN
  IF Halted(s1) THEN s1 ELSE
  PushBackLoop([s1 EXCEPT !.ret = NoRet], l, i - 1, ElemNext(s1, e))

DoPushBackList(s, l, other) ==
  LET s1 == lazyInit(s, l) IN
  IF Halted(s1) THEN s1
  ELSE PushBackLoop(s1, l, s1.len[other], Front(s1, other))

RECURSIVE PushFrontLoop(_, _, _, _)
PushFrontLoop(s, l, i, e) ==
  IF Halted(s) \/ i <= 0 THEN s ELSE
  IF e = NIL THEN Panic(s) ELSE
  LET s1 == insertValue(s, l, s.Value[e], Root(l)) IN
  IF Halted(s1) THEN s1 ELSE
  PushFrontLoop([s1 EXCEPT !.ret = NoRet], l, i - 1, ElemPrev(s1, e))

DoPushFrontList(s, l, other) ==
  LET s1 == lazyInit(s, l) IN
  IF Halted(s1) THEN s1
  ELSE PushFrontLoop(s1, l, s1.len[other], Back(s1, other))

----
\* What a caller observes of a list: Len(), and the forward traversal.

\* The elements met by following next from x until r, nil or the end of the
\* heap (a chain that never comes back to r is cut after every element of
\* the heap has had its turn).
RECURSIVE Walk(_, _, _, _)
Walk(s, r, x, fuel) ==
  IF x = r \/ x = NIL \/ fuel = 0 THEN <<>>
  ELSE <<x>> \o Walk(s, r, s.next[x], fuel - 1)

\* The elements after the sentinel of l, in order, up to the sentinel.
RingSeq(s, l) == Walk(s, Root(l), s.next[Root(l)], Cardinality(Ids))

RingSet(s, l) == {RingSeq(s, l)[i] : i \in 1..Len(RingSeq(s, l))}

\* Following next from the sentinel of l comes back to the sentinel.
RingCloses(s, l) ==
  LET w == RingSeq(s, l) IN
  /\ Len(w) < Cardinality(Ids)
  /\ IF w = <<>> THEN s.next[Root(l)] = Root(l)
     ELSE s.next[w[Len(w)]] = Root(l)

\* l has been initialized (by Init, or lazily by a push).
Initialized(s, l) == s.next[Root(l)] # NIL

\* e is an element of l: owned by l and met by the traversal of l.
Active(s, l, e) == s.alist[e] = l /\ e \in RingSet(s, l)

\* The elements kept in pool p, front to back, and the pool of l.
PoolSeq(s, p) == Walk(s, PoolRoot(p), s.next[PoolRoot(p)], Cardinality(Ids))

PoolOf(s, l) ==
  IF s.memory[l] = NIL THEN <<>> ELSE PoolSeq(s, s.memory[l])

PoolLen(s, l) == IF s.memory[l] = NIL THEN 0 ELSE s.plen[s.memory[l]]

\* w without the element e, the rest in order.
Without(w, e) == SelectSeq(w, LAMBDA x : x # e)

\* The payloads in traversal order.
ValueSeq(s, l) == [i \in 1..Len(RingSeq(s, l)) |-> s.Value[RingSeq(s, l)[i]]]

----
\* The state machine: one action per exported method.

\* The element handles a caller can hold: every element an insertion has
\* allocated (Returned) and, besides, the caller's own zero Element.
Returned == 1..created

Handles == Returned \cup {Ext}

\* The fields of the heap, without the outcome of the call.
Heap(s) ==
  <<s.next, s.prev, s.list, s.alist, s.Value, s.len, s.memory, s.plen>>

\* A call of the exported method `name` that takes the heap to s.  A call
\* that would allocate past the bounds of the model is not taken.
Apply(name, s, gone) ==
  /\ ~panicked
  /\ ~s.over
  /\ s.npools \in Inits
  /\ next' = s.next
  /\ prev' = s.prev
  /\ list' = s.list
  /\ alist' = s.alist
  /\ Value' = s.Value
  /\ len' = s.len
  /\ memory' = s.memory
  /\ plen' = s.plen
  /\ created' = s.created
  /\ npools' = s.npools
  /\ panicked' = s.panicked
  /\ ret' = s.ret
  /\ called' = [name |-> name, noop |-> Heap(s) = Heap(St)]
  /\ removed' = {e \in removed \cup gone :
                   \A l \in Lists : ~Active(s, l, e)}

\* var l AmortizedList[T]: zero values everywhere, no pool allocated.
Init ==
  /\ next = [i \in Ids |-> NIL]
  /\ prev = [i \in Ids |-> NIL]
  /\ list = [i \in Ids |-> NIL]
  /\ alist = [i \in Ids |-> NIL]
  /\ Value = [i \in Ids |-> 0]
  /\ len = [l \in Lists |-> 0]
  /\ memory = [l \in Lists |-> NIL]
  /\ plen = [p \in Pools |-> 0]
  /\ created = 0
  /\ npools = 0
  /\ panicked = FALSE
  /\ ret = NoRet
  /\ called = [name |-> "new", noop |-> TRUE]
  /\ removed = {}

InitList(l) == Apply("Init", DoInit(St, l), {})

PushFront(l, v) == Apply("PushFront", DoPushFront(St, l, v), {})

PushBack(l, v) == Apply("PushBack", DoPushBack(St, l, v), {})

InsertBefore(l, v, mark) ==
  Apply("InsertBefore", DoInsertBefore(St, l, v, mark), {})

InsertAfter(l, v, mark) == Apply("InsertAfter", DoInsertAfter(St, l, v, mark), {})

Remove(l, e) ==
  Apply("Remove", DoRemove(St, l, e),
        IF Active(St, l, e) THEN {e} ELSE {})

MoveToFront(l, e) == Apply("MoveToFront", DoMoveToFront(St, l, e), {})

MoveToBack(l, e) == Apply("MoveToBack", DoMoveToBack(St, l, e), {})

MoveBefore(l, e, mark) == Apply("MoveBefore", DoMoveBefore(St, l, e, mark), {})

MoveAfter(l, e, mark) == Apply("MoveAfter", DoMoveAfter(St, l, e, mark), {})

PushBackList(l, other) == Apply("PushBackList", DoPushBackList(St, l, other), {})

PushFrontList(l, other) ==
  Apply("PushFrontList", DoPushFrontList(St, l, other), {})

\* The caller recovers from the panic (recover() in a deferred function)
\* and goes on using the lists as the panicking call left them.
Recover ==
  /\ panicked
  /\ panicked' = FALSE
  /\ UNCHANGED <<next, prev, list, alist, Value, len, memory, plen, created,
                 npools, ret, called, removed>>

\* One list and the elements it returned: any exported method, with any
\* handles.  A panic that is not recovered ends the program.
Next ==
  \/ \E l \in OneList : InitList(l)
  \/ \E l \in OneList, v \in Values : PushFront(l, v)
  \/ \E l \in OneList, v \in Values : PushBack(l, v)
  \/ \E l \in OneList, v \in Values, mark \in Returned : InsertBefore(l, v, mark)
  \/ \E l \in OneList, v \in Values, mark \in Returned : InsertAfter(l, v, mark)
  \/ \E l \in OneList, e \in Returned : Remove(l, e)
  \/ \E l \in OneList, e \in Returned : MoveToFront(l, e)
  \/ \E l \in OneList, e \in Returned : MoveToBack(l, e)
  \/ \E l \in OneList, e \in Returned, mark \in Returned : MoveBefore(l, e, mark)
  \/ \E l \in OneList, e \in Returned, mark \in Returned : MoveAfter(l, e, mark)
  \/ \E l \in OneList, other \in OneList : PushBackList(l, other)
  \/ \E l \in OneList, other \in OneList : PushFrontList(l, other)

Spec == Init /\ [][Next]_vars

\* Two lists, allocating at most MaxShared elements between them, and a
\* caller that also passes elements of the other list and its own Element.
Shared == created' <= MaxShared

NextTwo ==
  \/ \E l \in Lists : InitList(l) /\ Shared
  \/ \E l \in Lists, v \in Values : PushFront(l, v) /\ Shared
  \/ \E l \in Lists, v \in Values : PushBack(l, v) /\ Shared
  \/ \E l \in Lists, v \in Values, mark \in Handles :
        InsertBefore(l, v, mark) /\ Shared
  \/ \E l \in Lists, v \in Values, mark \in Handles :
        InsertAfter(l, v, mark) /\ Shared
  \/ \E l \in Lists, e \in Handles : Remove(l, e) /\ Shared
  \/ \E l \in Lists, e \in Handles : MoveToFront(l, e) /\ Shared
  \/ \E l \in Lists, e \in Handles : MoveToBack(l, e) /\ Shared
  \/ \E l \in Lists, e \in Handles, mark \in Handles :
        MoveBefore(l, e, mark) /\ Shared
  \/ \E l \in Lists, e \in Handles, mark \in Handles :
        MoveAfter(l, e, mark) /\ Shared
  \/ \E l \in Lists, other \in Lists : PushBackList(l, other) /\ Shared
  \/ \E l \in Lists, other \in Lists : PushFrontList(l, other) /\ Shared

SpecTwo == Init /\ [][NextTwo]_vars

\* One list, with a caller that recovers from every panic.
NextRecover == Next \/ Recover

SpecRecover == Init /\ [][NextRecover]_vars

----
\* Len() of l is the number of elements the traversal of l meets.
LenIsRingSize(s, l) ==
  Initialized(s, l) => RingCloses(s, l) /\ s.len[l] = Len(RingSeq(s, l))

\* C1: after any sequence of calls, Len() is the number of elements met by
\* following next from the sentinel until the sentinel is met again.
C1_LenCountsRing == ~panicked => \A l \in Lists : LenIsRingSize(St, l)

\* The ring of l is circular and doubly linked: the traversal comes back to
\* the sentinel, next and prev are inverse on the sentinel and on every
\* element met, and an empty list has its sentinel linked to itself.
RingWellFormed(s, l) ==
  /\ RingCloses(s, l)
  /\ \A n \in RingSet(s, l) \cup {Root(l)} :
       /\ s.next[n] # NIL /\ s.prev[s.next[n]] = n
       /\ s.prev[n] # NIL /\ s.next[s.prev[n]] = n
  /\ s.len[l] = 0 => s.next[Root(l)] = Root(l) /\ s.prev[Root(l)] = Root(l)

\* C2: after any sequence of calls on an initialized list the ring is a
\* well-formed circular doubly linked ring: n.next.prev = n and
\* n.prev.next = n for the sentinel and every element, following next from
\* the sentinel returns to it, and when Len() is 0 the sentinel is linked
\* to itself.
C2_RingWellFormed ==
  ~panicked => \A l \in Lists : Initialized(St, l) => RingWellFormed(St, l)

\* The step took e out of the traversal of l and put it last in the pool.
RemoveRecycles(l, e) ==
  /\ ~panicked'
  /\ RingSeq(St', l) = Without(RingSeq(St, l), e)
  /\ len'[l] = len[l] - 1
  /\ ret' = [kind |-> "val", x |-> Value[e]]
  /\ memory'[l] = memory[l]
  /\ PoolOf(St', l) = Append(PoolOf(St, l), e)
  /\ PoolLen(St', l) = PoolLen(St, l) + 1

\* C3: Remove(e) of an element e of l takes e out of the traversal and keeps
\* the order of the others, lowers Len() by one, returns the payload of e
\* and leaves e at the back of the pool of l, one element longer; also when
\* the pool was empty.
C3_RemoveRecycles ==
  [][\A l \in Lists, e \in Nodes :
       Remove(l, e) /\ Active(St, l, e) /\ RingWellFormed(St, l)
         => RemoveRecycles(l, e)]_vars

\* Every element created so far has been removed again.
AllRemoved == created >= 1 /\ removed = 1..created

\* C4: once every element pushed so far has been removed again, the next
\* push allocates nothing: it returns one of the elements created before,
\* and the number of elements ever created stays what the first round made.
C4_SecondRoundReuses ==
  [][\A l \in Lists, v \in Values :
       (PushFront(l, v) \/ PushBack(l, v)) /\ AllRemoved
         => /\ ~panicked'
            /\ created' = created
            /\ ret'.kind = "elem" /\ ret'.x \in 1..created]_vars

\* The step left the traversal, Len() and the pool of l as they were.
Untouched(l) ==
  /\ RingSeq(St', l) = RingSeq(St, l)
  /\ len'[l] = len[l]
  /\ memory'[l] = memory[l]
  /\ PoolOf(St', l) = PoolOf(St, l)

\* A call of l that is given e, as the element or as the mark.
CallWith(l, e) ==
  \/ Remove(l, e)
  \/ MoveToFront(l, e)
  \/ MoveToBack(l, e)
  \/ \E v \in Values : InsertBefore(l, v, e) \/ InsertAfter(l, v, e)
  \/ \E m \in Handles :
       \/ MoveBefore(l, e, m) \/ MoveAfter(l, e, m)
       \/ MoveBefore(l, m, e) \/ MoveAfter(l, m, e)

\* C5: an element that Remove took out of l no longer has l as its owner,
\* and until an insertion hands it out again every call of l that is given
\* it leaves the traversal, Len() and the pool of l as they were.
C5_RemovedHandleIgnored ==
  [][\A l \in Lists, e \in removed :
       /\ ~panicked => alist[e] # l
       /\ CallWith(l, e) => Untouched(l)]_vars

\* What a caller can observe of l is the same in the heaps s and t.
SameList(s, t, l) ==
  /\ RingSeq(t, l) = RingSeq(s, l)
  /\ t.len[l] = s.len[l]
  /\ t.memory[l] = s.memory[l]
  /\ PoolOf(t, l) = PoolOf(s, l)
  /\ PoolLen(t, l) = PoolLen(s, l)

\* The call that led from s to t returned and left every list alone.
LeftAlone(s, t) == ~t.panicked /\ ~t.over /\ \A k \in Lists : SameList(s, t, k)

\* C6: for distinct lists A and B and an element e of A, B.Remove(e) returns
\* the payload of e and leaves the traversal, Len() and pool of both lists
\* as they were; e is still an element of A.
C6_ForeignRemoveRejected ==
  \A A \in Lists, B \in Lists, e \in Nodes :
    A # B /\ Active(St, A, e) =>
      LET t == DoRemove(St, B, e) IN
      /\ t.ret = [kind |-> "val", x |-> Value[e]]
      /\ LeftAlone(St, t)
      /\ Active(t, A, e)

C6_ForeignRemoveSeen ==
  /\ called.name = "Remove" /\ called.noop /\ ~panicked
  /\ ret.kind = "val" /\ ret.x \in Values
  /\ created >= 1
  /\ \A e \in Returned : \E l \in Lists : Active(St, l, e)

\* C7: InsertBefore(v, mark) and InsertAfter(v, mark) on l with a mark that
\* l does not own (an element of another list, or an element never
\* inserted) return nil, leave the traversal, Len() and pool of l as they
\* were, and create no element.
C7_ForeignMarkRejected ==
  \A l \in Lists, v \in Values, mark \in Handles :
    alist[mark] # l =>
      \A t \in {DoInsertBefore(St, l, v, mark), DoInsertAfter(St, l, v, mark)} :
        /\ t.ret = NilElem
        /\ LeftAlone(St, t)
        /\ t.created = created

C7_ForeignMarkSeen ==
  /\ called.name \in {"InsertBefore", "InsertAfter"} /\ called.noop /\ ~panicked
  /\ ret = NilElem
  /\ len[1] = 1 /\ len[2] = 1
  /\ \A e \in Returned : \E l \in Lists : Active(St, l, e)

\* The elements of w with e put right after the element at.
RECURSIVE PutAfter(_, _, _)
PutAfter(w, at, e) ==
  IF w = <<>> THEN <<>>
  ELSE IF Head(w) = at THEN <<at, e>> \o Tail(w)
  ELSE <<Head(w)>> \o PutAfter(Tail(w), at, e)

\* The elements of w with e put right before the element at.
RECURSIVE PutBefore(_, _, _)
PutBefore(w, at, e) ==
  IF w = <<>> THEN <<>>
  ELSE IF Head(w) = at THEN <<e>> \o w
  ELSE <<Head(w)>> \o PutBefore(Tail(w), at, e)

\* The call that led from s to t returned an element holding v, which is
\* the one element the traversal of l has gained; Len() is one more.
Inserted(s, t, l, v) ==
  /\ ~t.panicked
  /\ t.ret.kind = "elem" /\ t.ret.x \in Nodes
  /\ t.Value[t.ret.x] = v
  /\ t.len[l] = s.len[l] + 1
  /\ Without(RingSeq(t, l), t.ret.x) = RingSeq(s, l)

\* C8: for a mark that is an element of l, InsertAfter(v, mark) returns an
\* element e holding v with e.prev = mark and InsertBefore(v, mark) one
\* with e.next = mark; Len() grows by one and the elements that were in the
\* list keep their order (in a well-formed ring e is met right after,
\* respectively right before, the mark).
C8_InsertAtMark ==
  \A l \in Lists, v \in Values, mark \in Nodes :
    Active(St, l, mark) =>
      LET a == DoInsertAfter(St, l, v, mark)
          b == DoInsertBefore(St, l, v, mark) IN
      /\ ~a.over =>
           /\ Inserted(St, a, l, v)
           /\ a.prev[a.ret.x] = mark
           /\ RingWellFormed(St, l) =>
                RingSeq(a, l) = PutAfter(RingSeq(St, l), mark, a.ret.x)
      /\ ~b.over =>
           /\ Inserted(St, b, l, v)
           /\ b.next[b.ret.x] = mark
           /\ RingWellFormed(St, l) =>
                RingSeq(b, l) = PutBefore(RingSeq(St, l), mark, b.ret.x)

C8_InsertedInTheMiddle ==
  /\ called.name \in {"InsertAfter", "InsertBefore"} /\ ~panicked
  /\ ret.kind = "elem" /\ ret.x \in Nodes
  /\ RingWellFormed(St, 1) /\ len[1] = 3
  /\ RingSeq(St, 1)[2] = ret.x

\* C9: PushBack puts its value last in the traversal and PushFront first,
\* so k calls of PushBack on an empty list leave v1..vk and k calls of
\* PushFront leave vk..v1.
C9_PushOrder ==
  \A l \in Lists, v \in Values :
    (Initialized(St, l) => RingWellFormed(St, l)) =>
      LET b == DoPushBack(St, l, v)
          f == DoPushFront(St, l, v) IN
      /\ ~b.over =>
           /\ ~b.panicked
           /\ ValueSeq(b, l) = Append(ValueSeq(St, l), v)
           /\ RingSeq(b, l) = Append(RingSeq(St, l), b.ret.x)
      /\ ~f.over =>
           /\ ~f.panicked
           /\ ValueSeq(f, l) = <<v>> \o ValueSeq(St, l)
           /\ RingSeq(f, l) = <<f.ret.x>> \o RingSeq(St, l)

C9_ThreePushedBack ==
  /\ called.name = "PushBack" /\ ~panicked
  /\ RingSeq(St, 1) = <<1, 2, 3>>
  /\ ValueSeq(St, 1) = <<1, 2, 1>>

\* C10: MoveToFront, MoveToBack, MoveBefore and MoveAfter leave the
\* traversal, Len() and the pool as they were when l does not own the
\* element moved, when the element is already first (respectively last),
\* when the element is the mark, and when l does not own the mark.
C10_MoveNoOps ==
  \A l \in Lists, e \in Handles :
    /\ alist[e] # l \/ next[Root(l)] = e => LeftAlone(St, DoMoveToFront(St, l, e))
    /\ alist[e] # l \/ prev[Root(l)] = e => LeftAlone(St, DoMoveToBack(St, l, e))
    /\ \A mark \in Handles :
         alist[e] # l \/ e = mark \/ alist[mark] # l =>
           /\ LeftAlone(St, DoMoveBefore(St, l, e, mark))
           /\ LeftAlone(St, DoMoveAfter(St, l, e, mark))

C10_MoveLeftAlone ==
  /\ called.name = "MoveToFront" /\ called.noop /\ ~panicked
  /\ len[1] = 2 /\ RingWellFormed(St, 1)
  /\ Returned = RingSet(St, 1)

\* The call that led from s to t returned and only changed the place of e
\* in l: Len(), the elements of l, every payload, the order of the elements
\* other than e and the pool are what they were.
Moved(s, t, l, e) ==
  /\ ~t.panicked
  /\ t.len[l] = s.len[l]
  /\ RingSet(t, l) = RingSet(s, l)
  /\ t.Value = s.Value
  /\ Without(RingSeq(t, l), e) = Without(RingSeq(s, l), e)
  /\ t.memory[l] = s.memory[l]
  /\ PoolOf(t, l) = PoolOf(s, l)
  /\ PoolLen(t, l) = PoolLen(s, l)

\* C11: for elements e and mark of l, e # mark: after MoveToFront(e)
\* Front() is e, after MoveToBack(e) Back() is e, after MoveBefore(e, mark)
\* e.next is mark and after MoveAfter(e, mark) e.prev is mark; every move
\* keeps Len(), the elements of l, their payloads, the order of the elements
\* other than e, and the pool.
C11_MovePlaces ==
  \A l \in Lists, e \in Nodes :
    Active(St, l, e) =>
      LET f == DoMoveToFront(St, l, e)
          b == DoMoveToBack(St, l, e) IN
      /\ Moved(St, f, l, e) /\ Front(f, l) = e
      /\ Moved(St, b, l, e) /\ Back(b, l) = e
      /\ \A mark \in Nodes :
           Active(St, l, mark) /\ e # mark =>
             LET mb == DoMoveBefore(St, l, e, mark)
                 ma == DoMoveAfter(St, l, e, mark) IN
             /\ Moved(St, mb, l, e) /\ mb.next[e] = mark
             /\ Moved(St, ma, l, e) /\ ma.prev[e] = mark

\* The elements of the sequence w.
Elems(w) == {w[i] : i \in 1..Len(w)}

\* The call that led from s to t returned and put into l the elements of
\* the sequence new, as many as other had by Len(), carrying the payloads of
\* the elements of other in their order; they are elements neither list had,
\* and a list other than l is as it was.
Copied(s, t, l, other, new) ==
  /\ ~t.panicked
  /\ Len(new) = s.len[other]
  /\ Cardinality(Elems(new)) = Len(new)
  /\ Elems(new) \cap (RingSet(s, l) \cup RingSet(s, other)) = {}
  /\ [i \in 1..Len(new) |-> t.Value[new[i]]] = ValueSeq(s, other)
  /\ t.len[l] = s.len[l] + s.len[other]
  /\ other # l => SameList(s, t, other)

\* The last n elements of w, and w without them.
LastN(w, n) == SubSeq(w, Len(w) - n + 1, Len(w))

ButLastN(w, n) == SubSeq(w, 1, Len(w) - n)

\* C12: PushBackList(other) appends to l, and PushFrontList(other) prepends
\* to l, exactly other.Len() new elements that carry the payloads of the
\* elements of other in the order of other and are none of its elements; a
\* list other than l keeps its traversal, Len() and pool, and the elements l
\* had keep their order.
C12_ListCopied ==
  \A l \in Lists, other \in Lists :
    LET b == DoPushBackList(St, l, other)
        f == DoPushFrontList(St, l, other)
        n == Len(RingSeq(St, l)) IN
    /\ ~b.over =>
         /\ Len(RingSeq(b, l)) >= n
         /\ SubSeq(RingSeq(b, l), 1, n) = RingSeq(St, l)
         /\ Copied(St, b, l, other, SubSeq(RingSeq(b, l), n + 1, Len(RingSeq(b, l))))
    /\ ~f.over =>
         /\ Len(RingSeq(f, l)) >= n
         /\ LastN(RingSeq(f, l), n) = RingSeq(St, l)
         /\ Copied(St, f, l, other, ButLastN(RingSeq(f, l), n))

\* The insertions made between the heaps s and t: the elements allocated
\* and the elements taken from the pool of l.
Insertions(s, t, l) == (t.created - s.created) + (PoolLen(s, l) - PoolLen(t, l))

\* The call that led from s to t returned after Len() insertions and left l
\* with its payloads twice in a row and twice its Len().
Doubled(s, t, l) ==
  /\ ~t.panicked
  /\ Insertions(s, t, l) = s.len[l]
  /\ t.len[l] = 2 * s.len[l]
  /\ ValueSeq(t, l) = ValueSeq(s, l) \o ValueSeq(s, l)

\* C13: L.PushBackList(L) and L.PushFrontList(L) on a list of n elements
\* end after n insertions and leave L with its payloads twice in a row and
\* Len() = 2n; the elements inserted are not copied again.
C13_SelfAppend ==
  \A l \in Lists :
    LET b == DoPushBackList(St, l, l)
        f == DoPushFrontList(St, l, l) IN
    /\ ~b.over => Doubled(St, b, l)
    /\ ~f.over => Doubled(St, f, l)

\* The heap s up to the identity of the pools: the links, owners and
\* payloads of the elements and list sentinels, Len(), and for every list
\* whether it has a pool and what the pool holds.
Whole(s) ==
  LET Own == Nodes \cup ListRoots \cup {Ext} IN
  <<[n \in Own |-> s.next[n]], [n \in Own |-> s.prev[n]],
    [n \in Own |-> s.alist[n]], [n \in Own |-> s.Value[n]],
    s.len, [l \in Lists |-> s.memory[l] # NIL],
    [l \in Lists |-> PoolOf(s, l)], [l \in Lists |-> PoolLen(s, l)],
    s.created>>

\* A call on the zero-valued l (heap t0 after it) and the same call on l
\* initialized first (heap t1 after it) give the same result, and leave the
\* same heap or, when the call left l zero-valued, heaps that differ by
\* that initialization only.
AsInitialized(l, t0, t1) ==
  t0.over \/ t1.over \/
    /\ t0.ret = t1.ret
    /\ t0.panicked = t1.panicked
    /\ \/ Whole(t1) = Whole(t0)
       \/ ~Initialized(t0, l) /\ Whole(t1) = Whole(DoInit(t0, l))

\* Every call on l, made in s and made in z: the two results.
BothCalls(s, z, l) ==
  {<<DoInit(s, l), DoInit(z, l)>>}
    \cup {<<DoPushFront(s, l, v), DoPushFront(z, l, v)>> : v \in Values}
    \cup {<<DoPushBack(s, l, v), DoPushBack(z, l, v)>> : v \in Values}
    \cup {<<DoInsertBefore(s, l, c[1], c[2]), DoInsertBefore(z, l, c[1], c[2])>> :
            c \in Values \X Handles}
    \cup {<<DoInsertAfter(s, l, c[1], c[2]), DoInsertAfter(z, l, c[1], c[2])>> :
            c \in Values \X Handles}
    \cup {<<DoRemove(s, l, e), DoRemove(z, l, e)>> : e \in Handles}
    \cup {<<DoMoveToFront(s, l, e), DoMoveToFront(z, l, e)>> : e \in Handles}
    \cup {<<DoMoveToBack(s, l, e), DoMoveToBack(z, l, e)>> : e \in Handles}
    \cup {<<DoMoveBefore(s, l, c[1], c[2]), DoMoveBefore(z, l, c[1], c[2])>> :
            c \in Handles \X Handles}
    \cup {<<DoMoveAfter(s, l, c[1], c[2]), DoMoveAfter(z, l, c[1], c[2])>> :
            c \in Handles \X Handles}
    \cup {<<DoPushBackList(s, l, other), DoPushBackList(z, l, other)>> :
            other \in Lists}
    \cup {<<DoPushFrontList(s, l, other), DoPushFrontList(z, l, other)>> :
            other \in Lists}

\* C14: a zero-valued list is usable without Init: Len() is 0, Front() and
\* Back() are nil, and every call on it returns what the same call returns
\* on the list initialized first and leaves the same list, so that any
\* sequence of calls does.
C14_ZeroValueUsable ==
  \A l \in Lists :
    ~Initialized(St, l) =>
      /\ len[l] = 0 /\ Front(St, l) = NIL /\ Back(St, l) = NIL
      /\ \A c \in BothCalls(St, DoInit(St, l), l) : AsInitialized(l, c[1], c[2])

C14_ZeroValueUsed ==
  /\ called.name \in {"PushFront", "PushBack", "PushBackList", "PushFrontList"}
  /\ ~panicked
  /\ Initialized(St, 1) /\ len[1] >= 1 /\ RingWellFormed(St, 1)
  /\ ~Initialized(St, 2) /\ npools = 1

\* C15: Front() and Back() are nil exactly when Len() is 0; otherwise
\* Front() is the element right after the sentinel and Back() the element
\* right before it, and neither is ever the sentinel.
C15_FrontBack ==
  ~panicked =>
    \A l \in Lists :
      /\ Front(St, l) = NIL <=> len[l] = 0
      /\ Back(St, l) = NIL <=> len[l] = 0
      /\ len[l] # 0 => Front(St, l) = next[Root(l)] /\ Back(St, l) = prev[Root(l)]
      /\ Front(St, l) \notin ListRoots \cup PoolRoots
      /\ Back(St, l) \notin ListRoots \cup PoolRoots

\* C16: Init in any state leaves the sentinel linked to itself, Len() = 0
\* and a new, empty pool, so that the next insertion takes no element that
\* existed before; Init twice in a row leaves what Init once leaves.
C16_InitClears ==
  \A l \in Lists :
    LET t == DoInit(St, l)
        u == DoInit(t, l) IN
    ~t.over =>
      /\ ~t.panicked
      /\ t.next[Root(l)] = Root(l) /\ t.prev[Root(l)] = Root(l)
      /\ t.len[l] = 0
      /\ RingSeq(t, l) = <<>>
      /\ t.memory[l] \in Pools \ (1..npools)
      /\ PoolOf(t, l) = <<>> /\ PoolLen(t, l) = 0
      /\ \A v \in Values :
           LET w == DoPushBack(t, l, v) IN
           ~w.over => ~w.panicked /\ w.ret.x \in Nodes \ (1..created)
      /\ ~u.over => Whole(u) = Whole(t) /\ u.ret = t.ret /\ ~u.panicked

C16_InitOnUsedList ==
  /\ called.name = "Init" /\ ~called.noop /\ ~panicked
  /\ created >= 2
  /\ len[1] = 0 /\ next[Root(1)] = Root(1) /\ prev[Root(1)] = Root(1)
  /\ memory[1] = 2 /\ plen[2] = 0

\* The insertion of v into l that led from s to t allocated its element if
\* the pool of l was empty, and otherwise took the last element of the
\* pool, which is one shorter, and gave it the payload v; either way it
\* returned that element; and it allocated only if no removed element was
\* waiting to be used again.
Recycling(s, t, l, v) ==
  /\ t.ret.kind = "elem"
  /\ t.Value[t.ret.x] = v
  /\ IF PoolLen(s, l) = 0
     THEN /\ t.created = s.created + 1
          /\ t.ret.x = t.created
          /\ PoolLen(t, l) = 0
     ELSE /\ t.created = s.created
          /\ t.ret.x = PoolOf(s, l)[Len(PoolOf(s, l))]
          /\ PoolLen(t, l) = PoolLen(s, l) - 1
          /\ PoolOf(t, l) = ButLastN(PoolOf(s, l), 1)
  /\ t.created > s.created => removed = {}

CreatedBy(s, l) == {e \in 1..s.created : s.alist[e] = l}

\* C18: as long as Init is not used to clear a list, every element a list
\* has created is linked in exactly one of its ring and its pool, so Len()
\* plus the length of the pool is the number of elements created.
C18_NodesConserved ==
  ~panicked /\ npools <= 1 =>
    \A l \in Lists :
      /\ \A e \in CreatedBy(St, l) :
           (e \in RingSet(St, l)) # (e \in Elems(PoolOf(St, l)))
      /\ len[l] + PoolLen(St, l) = Cardinality(CreatedBy(St, l))

\* C19: Len() is never negative, whatever elements the calls are given.
C19_LenNotNegative ==
  ~panicked => \A l \in Lists : len[l] >= 0

\* The nodes linked into the traversal or the pool of l.
Held(s, l) == RingSet(s, l) \cup Elems(PoolOf(s, l))

\* The call on A that led from s to t kept clear of B, whose traversal was
\* ring and whose pool was pool in s.
Isolated(s, t, A, B, ring, pool) ==
  LET held == Elems(ring) \cup Elems(pool) IN
  t.over \/
  /\ RingSeq(t, B) = ring
  /\ PoolOf(t, B) = pool
  /\ t.len[B] = s.len[B]
  /\ t.memory[B] = s.memory[B]
  /\ PoolLen(t, B) = PoolLen(s, B)
  /\ \A n \in held \cup {Root(B)} :
       /\ t.next[n] = s.next[n]
       /\ t.prev[n] = s.prev[n]
       /\ t.alist[n] = s.alist[n]
  /\ Held(t, A) \cap held = {}
  /\ \A n \in CreatedBy(t, A) \cup {Root(A)} :
       /\ t.next[n] \notin held \cup {Root(B)}
       /\ t.prev[n] \notin held \cup {Root(B)}

\* The results of every operation on l, with every argument.
CallsOn(s, l) ==
  {DoInit(s, l)}
    \cup {DoPushFront(s, l, v) : v \in Values}
    \cup {DoPushBack(s, l, v) : v \in Values}
    \cup {DoInsertBefore(s, l, c[1], c[2]) : c \in Values \X Handles}
    \cup {DoInsertAfter(s, l, c[1], c[2]) : c \in Values \X Handles}
    \cup {DoRemove(s, l, e) : e \in Handles}
    \cup {DoMoveToFront(s, l, e) : e \in Handles}
    \cup {DoMoveToBack(s, l, e) : e \in Handles}
    \cup {DoMoveBefore(s, l, c[1], c[2]) : c \in Handles \X Handles}
    \cup {DoMoveAfter(s, l, c[1], c[2]) : c \in Handles \X Handles}
    \cup {DoPushBackList(s, l, other) : other \in Lists}
    \cup {DoPushFrontList(s, l, other) : other \in Lists}

\* C20: for distinct lists A and B, no operation on A, whatever elements it
\* is given, links a node of B's traversal or pool into A, or changes B's
\* traversal, Len() or pool; in every state a node is only found in the
\* traversal or pool of the list that created it.
C20_Isolation ==
  /\ \A k \in Lists : Held(St, k) \cap Nodes \subseteq CreatedBy(St, k)
  /\ \A A \in Lists, B \in Lists :
       A # B =>
         LET ring == RingSeq(St, B)
             pool == PoolOf(St, B)
         IN \A t \in CallsOn(St, A) : Isolated(St, t, A, B, ring, pool)

C20_ForeignElementsTried ==
  /\ called.name \in {"MoveBefore", "MoveAfter"} /\ called.noop /\ ~panicked
  /\ len[1] = 1 /\ len[2] = 1
  /\ RingWellFormed(St, 1) /\ RingWellFormed(St, 2)
  /\ \A e \in Returned : \E l \in Lists : Active(St, l, e)

====
